---- MODULE Spec2Model ----
(***************************************************************************)
(* The editor of src/editor.rs as a state machine: the cursor, the scroll  *)
(* offset, the line buffer and the exit flag of Editor, the terminal it    *)
(* draws on, and the main loop of Editor::run (exit check, render, read    *)
(* one key, dispatch).                                                      *)
(*                                                                         *)
(* Integers keep the widths of the source: cursor.x, cursor.y and the      *)
(* terminal's width and height are u16, the offset is u64, lengths and     *)
(* slice bounds are usize.  A line is the sequence of the bytes of its     *)
(* UTF-8 encoding, because String::len, String::push and the str slices    *)
(* of Editor::delete all count bytes.                                      *)
(*                                                                         *)
(* A Rust panic ends the program: the model records the kind of panic in   *)
(* `panic` and stops.  u16 arithmetic written with + and - panics in a     *)
(* build with overflow checks and wraps modulo 2^16 in a build without;    *)
(* `overflow_checks` is the build, chosen once.                            *)
(***************************************************************************)
EXTENDS Integers, Sequences, FiniteSets, TLC

VARIABLES
    cursor,           \* Editor.cursor: [x, y], both u16
    offset,           \* Editor.offset: u64
    buffer,           \* Editor.buffer: [lines], each line a sequence of bytes
    kill,             \* Editor.kill
    terminal,         \* Editor.terminal: [width, height, cursor, screen]
    pc,               \* position in the loop of Editor::run
    panic,            \* "none", or the panic that ended the program
    overflow_checks,  \* TRUE: the build panics on u16 overflow; FALSE: it wraps
    key,              \* the last result of stdin.next()
    prev,             \* the editor when that result was read
    typed             \* the number of Key::Char events read so far

vars ==
    <<cursor, offset, buffer, kill, terminal, pc, panic, overflow_checks, key, prev,
      typed>>

----------------------------------------------------------------------------
(* Bounds of the model *)

\* terminal heights are 0..MaxHeight
MaxHeight == 4

\* at most this many Key::Char events are read in one run
MaxTyped == 1

\* the two terminal widths: one below every pad of render, one above
NarrowWidth == 2
WideWidth == 30

----------------------------------------------------------------------------
(* Integer widths and saturating arithmetic *)

U16 == 65536

AsU16(n) == n % U16

SatSub(a, b) == IF a >= b THEN a - b ELSE 0

SatAddU16(a, b) == IF a + b >= U16 THEN U16 - 1 ELSE a + b

Min(a, b) == IF a <= b THEN a ELSE b

----------------------------------------------------------------------------
(* Characters and their UTF-8 bytes *)

\* the characters Key::Char carries: one of one byte, one of two bytes
Chars == {"c", "eacute"}

Utf8(c) == IF c = "eacute" THEN <<"xC3", "xA9">> ELSE <<c>>

IsContinuation(b) == b = "xA9"

\* str::is_char_boundary, i a 0-based byte index
IsCharBoundary(line, i) ==
    \/ i = 0
    \/ i = Len(line)
    \/ i < Len(line) /\ ~IsContinuation(line[i + 1])

\* line[from..to], 0-based byte indices, to exclusive
Slice(line, from, to) == SubSeq(line, from + 1, to)

----------------------------------------------------------------------------
(* The editor as a value.  The handlers below are functions from the      *)
(* editor before a key to the editor after it; e.panic names the panic    *)
(* that cut the handler short, with the fields as they were at that point. *)
(* offset.saturating_add(1) is written @ + 1: the offset stays far below    *)
(* the u64 bound it saturates at.                                          *)

Panic(e, kind) == [e EXCEPT !.panic = kind]

\* self.cursor.y + self.offset as u16: the cast truncates, the sum is u16
LineIndexOverflows(e) == e.y + AsU16(e.offset) >= U16

LineIndex(e) == AsU16(e.y + AsU16(e.offset))

correct_line(e) ==
    IF e.lines = <<>> THEN [e EXCEPT !.x = 0]
    ELSE IF e.checks /\ LineIndexOverflows(e) THEN Panic(e, "overflow")
    ELSE IF LineIndex(e) >= Len(e.lines) THEN Panic(e, "index")
    ELSE LET current == e.lines[LineIndex(e) + 1] IN
         IF e.x > AsU16(Len(current))
         THEN [e EXCEPT !.x = AsU16(Len(current))]
         ELSE e

\* Key::Left with the column test of the wrap forgotten
KeyLeft_NoColumnTest(e) ==
    IF e.checks /\ LineIndexOverflows(e) THEN Panic(e, "overflow")
    ELSE LET current == LineIndex(e) IN
         IF current # 0
         THEN correct_line([e EXCEPT
                  !.offset = IF e.y = 0 THEN SatSub(@, 1) ELSE @,
                  !.x = e.width,
                  !.y = SatSub(@, 1)])
         ELSE [e EXCEPT !.x = SatSub(@, 1)]

KeyLeft(e) ==
    IF e.checks /\ LineIndexOverflows(e) THEN Panic(e, "overflow")
    ELSE LET current == LineIndex(e) IN
         IF e.x = 0 /\ current # 0
         THEN correct_line([e EXCEPT
                  !.offset = IF e.y = 0 THEN SatSub(@, 1) ELSE @,
                  !.x = e.width,
                  !.y = SatSub(@, 1)])
         ELSE [e EXCEPT !.x = SatSub(@, 1)]

\* the wrap of Key::Right to the next line: size[1] - 3 is a checked u16
\* subtraction
RightWrap(e) ==
    IF e.height < 3 /\ e.checks THEN Panic(e, "overflow")
    ELSE IF e.y = AsU16(e.height - 3 + U16)
         THEN [e EXCEPT !.offset = @ + 1, !.x = 0]
         ELSE [e EXCEPT !.y = SatAddU16(@, 1), !.x = 0]

KeyRight(e) ==
    IF e.checks /\ LineIndexOverflows(e) THEN Panic(e, "overflow")
    ELSE LET index == LineIndex(e) IN
         IF e.lines = <<>> THEN e
         ELSE IF index >= Len(e.lines) THEN Panic(e, "index")
         ELSE LET current == e.lines[index + 1] IN
              IF AsU16(Len(current)) = e.x
              THEN IF index + 1 >= U16 /\ e.checks THEN Panic(e, "overflow")
                   ELSE IF AsU16(Len(e.lines)) # AsU16(index + 1)
                        THEN RightWrap(e)
                        ELSE IF e.x < SatSub(e.width, 1)
                             THEN correct_line([e EXCEPT !.x = SatAddU16(@, 1)])
                             ELSE e
              ELSE IF e.x < SatSub(e.width, 1)
                   THEN correct_line([e EXCEPT !.x = SatAddU16(@, 1)])
                   ELSE e

\* Key::Up scrolling as well as moving the row
KeyUp_ScrollToo(e) ==
    IF e.y # 0
    THEN correct_line([e EXCEPT !.y = SatSub(@, 1), !.offset = SatSub(@, 1)])
    ELSE [e EXCEPT !.offset = SatSub(@, 1)]

KeyUp(e) ==
    IF e.y # 0
    THEN correct_line([e EXCEPT !.y = SatSub(@, 1)])
    ELSE [e EXCEPT !.offset = SatSub(@, 1)]

\* Key::Down with <= for < in the test against the buffer length
KeyDown_OffByOne(e) ==
    LET buff_len == Len(e.lines)
        proposed == SatAddU16(e.y, 1)
        max      == SatSub(e.height, 3)
    IN  IF proposed + e.offset <= buff_len
        THEN IF e.y < max
             THEN correct_line([e EXCEPT !.y = AsU16(proposed)])
             ELSE [e EXCEPT !.offset = @ + 1]
        ELSE e

KeyDown(e) ==
    LET buff_len == Len(e.lines)
        proposed == SatAddU16(e.y, 1)
        max      == SatSub(e.height, 3)
    IN  IF proposed + e.offset < buff_len
        THEN IF e.y < max
             THEN correct_line([e EXCEPT !.y = AsU16(proposed)])
             ELSE [e EXCEPT !.offset = @ + 1]
        ELSE e

KeyPageUp(e) == correct_line([e EXCEPT !.y = 0])

KeyPageDown(e) ==
    LET t == SatSub(e.height, 3)
        b == AsU16(SatSub(Len(e.lines), 1))
    IN  correct_line([e EXCEPT !.y = Min(t, b)])

KeyHome(e) == [e EXCEPT !.x = 0]

\* Key::End with the clamp forgotten
KeyEnd_NoClamp(e) == [e EXCEPT !.x = SatSub(e.width, 1)]

KeyEnd(e) == correct_line([e EXCEPT !.x = SatSub(e.width, 1)])

\* insert with the column left where it was
insert_NoAdvance(e, c) ==
    IF e.checks /\ LineIndexOverflows(e) THEN Panic(e, "overflow")
    ELSE IF LineIndex(e) >= Len(e.lines) THEN Panic(e, "index")
    ELSE [e EXCEPT !.lines[LineIndex(e) + 1] = @ \o Utf8(c)]

insert(e, c) ==
    IF e.checks /\ LineIndexOverflows(e) THEN Panic(e, "overflow")
    ELSE IF LineIndex(e) >= Len(e.lines) THEN Panic(e, "index")
    ELSE [e EXCEPT !.lines[LineIndex(e) + 1] = @ \o Utf8(c),
                   !.x = SatAddU16(@, 1)]

\* the panic of a str slice that ends or starts at byte i: past the end of
\* the line, or inside a character
SliceFault(line, i) ==
    IF i > Len(line) THEN "slice"
    ELSE IF ~IsCharBoundary(line, i) THEN "boundary"
    ELSE "none"

\* the body of Editor::delete once cursor.x is decremented: d is the editor
\* with the new column
DeleteAt(d) ==
    IF d.checks /\ LineIndexOverflows(d) THEN Panic(d, "overflow")
    ELSE LET index == LineIndex(d)
             start == SatSub(d.x, 1)
             end   == SatAddU16(d.x, 1)
         IN  IF index >= Len(d.lines) THEN Panic(d, "index")
             ELSE LET line == d.lines[index + 1] IN
                  IF SliceFault(line, start + 1) # "none"
                  THEN Panic(d, SliceFault(line, start + 1))
                  ELSE IF SliceFault(line, end) # "none"
                  THEN Panic(d, SliceFault(line, end))
                  ELSE [d EXCEPT !.lines[index + 1] =
                           Slice(line, 0, start + 1) \o Slice(line, end, Len(line))]

delete(e) ==
    IF e.x # 0
    THEN DeleteAt([e EXCEPT !.x = SatSub(@, 1)])
    ELSE e

----------------------------------------------------------------------------
(* Editor::render, as far as it can end the program.  The pads are usize   *)
(* subtractions: one that underflows panics with overflow checks, and      *)
(* without them wraps to a count " ".repeat cannot allocate, which panics  *)
(* too.                                                                     *)

\* the length of VERSION, CARGO_PKG_VERSION: a semantic version such as 0.1.0
VersionLen == 5

Digits(n) ==
    IF n < 10 THEN 1 ELSE IF n < 100 THEN 2 ELSE IF n < 1000 THEN 3
    ELSE IF n < 10000 THEN 4 ELSE 5

\* the length of format!(" Ox: {} | x: {} | y: {}", VERSION, x, y)
StatusLen(e) == 5 + VersionLen + 6 + Digits(e.x) + 6 + Digits(e.y)

\* width as usize - status_line.len()
StatusPad(e) == e.width - StatusLen(e)

\* the lengths of the four welcome texts
WelcomeLen(i) ==
    CASE i = 0 -> 11 + VersionLen   \* "Ox editor v{VERSION}"
      [] i = 1 -> 31                \* "A speedy editor built with Rust"
      [] i = 2 -> 11                \* "by curlpipe"
      [] i = 3 -> 15                \* "Ctrl + Q:  Exit"

WelcomePad(e, i) == (e.width \div 2) - (WelcomeLen(i) \div 2)

\* what the row is, or the panic that building it raises
RenderRow(e, row) ==
    LET empty == e.lines = <<>>
        third == e.height \div 3
        welcome(i) == IF WelcomePad(e, i) < 0 THEN "render_pad" ELSE "welcome"
    IN  IF row = third /\ empty THEN welcome(0)
        ELSE IF row = third + 2 /\ empty THEN welcome(1)
        ELSE IF row = third + 3 /\ empty THEN welcome(2)
        ELSE IF row = third + 5 /\ empty THEN welcome(3)
        ELSE IF e.height < 2 /\ e.checks THEN "render_overflow"
        ELSE IF row = AsU16(e.height - 2 + U16)
             THEN IF StatusPad(e) < 0 THEN "render_pad" ELSE "status"
        ELSE IF row = AsU16(e.height - 1 + U16) THEN "command"
        ELSE IF row < AsU16(Len(e.lines))
             THEN IF e.offset + row >= Len(e.lines) THEN "render_index" ELSE "text"
        ELSE "tilde"

RenderPanics == {"render_pad", "render_overflow", "render_index"}

\* the panic of the first row that raises one, "none" when the frame is built
RenderPanic(e) ==
    LET bad == {row \in 0 .. e.height - 1 : RenderRow(e, row) \in RenderPanics}
    IN  IF bad = {} THEN "none"
        ELSE RenderRow(e, CHOOSE row \in bad : \A r \in bad : row <= r)

----------------------------------------------------------------------------
(* The state machine *)

\* the sizes Terminal::new and check_resize may find, the ordinary ones first
Widths == <<WideWidth, NarrowWidth>>

Heights == [i \in 1 .. MaxHeight + 1 |-> MaxHeight + 1 - i]

\* the files Buffer::open may have read; Buffer::new gives the first
Files ==
    { <<>>,
      << <<"a", "b">> >>,
      << <<"a">>, <<"a", "b">>, <<>> >> }

\* the Terminal collaborator: clear_all, move_cursor and check_resize
clear_all(t) == [t EXCEPT !.screen = "clear"]

move_cursor(t, x, y) == [t EXCEPT !.cursor = <<x, y>>]

\* the frame is printed between clear_all and the last move_cursor
print_frame(t) == [t EXCEPT !.screen = "frame"]

check_resize(t, w, h) == [t EXCEPT !.width = w, !.height = h]

\* the Editor the handlers work on
Ed ==
    [x |-> cursor.x, y |-> cursor.y, offset |-> offset, lines |-> buffer.lines,
     width |-> terminal.width, height |-> terminal.height,
     checks |-> overflow_checks, panic |-> "none"]

Init ==
    /\ cursor = [x |-> 0, y |-> 0]
    /\ offset = 0
    /\ \E f \in Files : buffer = [lines |-> f]
    /\ kill = FALSE
    /\ \E i \in DOMAIN Widths, j \in DOMAIN Heights :
          terminal = [width |-> Widths[i], height |-> Heights[j],
                      cursor |-> <<0, 0>>, screen |-> "raw"]
    /\ pc = "loop"
    /\ panic = "none"
    /\ overflow_checks \in BOOLEAN
    /\ key = <<"Start">>
    /\ prev = Ed
    /\ typed = 0

\* the exit with the break forgotten: the loop goes round again
Exit_NoBreak ==
    /\ pc = "loop"
    /\ kill
    /\ terminal' = move_cursor(clear_all(terminal), 0, 0)
    /\ pc' = "loop"
    /\ UNCHANGED <<cursor, offset, buffer, kill, panic, overflow_checks, key, prev,
                   typed>>

\* if self.kill { clear_all(); move_cursor(0, 0); break }
Exit ==
    /\ pc = "loop"
    /\ kill
    /\ terminal' = move_cursor(clear_all(terminal), 0, 0)
    /\ pc' = "done"
    /\ UNCHANGED <<cursor, offset, buffer, kill, panic, overflow_checks, key, prev,
                   typed>>

\* self.render()
Render ==
    /\ pc = "loop"
    /\ ~kill
    /\ IF RenderPanic(Ed) = "none"
       THEN /\ terminal' = move_cursor(print_frame(move_cursor(clear_all(terminal), 0, 0)),
                                       cursor.x, cursor.y)
            /\ pc' = "read"
            /\ panic' = panic
       ELSE /\ pc' = "panicked"
            /\ panic' = RenderPanic(Ed)
            /\ terminal' = terminal
    /\ UNCHANGED <<cursor, offset, buffer, kill, overflow_checks, key, prev, typed>>

\* stdin.next() gave Some(Ok(k)) and its handler left the editor as r
Dispatch(k, r) ==
    /\ pc = "read"
    /\ key' = k
    /\ prev' = Ed
    /\ cursor' = [x |-> r.x, y |-> r.y]
    /\ offset' = r.offset
    /\ buffer' = [lines |-> r.lines]
    /\ panic' = r.panic
    /\ pc' = IF r.panic = "none" THEN "loop" ELSE "panicked"
    /\ typed' = IF k[1] = "Char" THEN typed + 1 ELSE typed
    /\ UNCHANGED <<terminal, overflow_checks>>

PressCtrlQ == Dispatch(<<"CtrlQ">>, Ed) /\ kill' = TRUE

PressLeft == Dispatch(<<"Left">>, KeyLeft(Ed)) /\ kill' = kill

PressRight == Dispatch(<<"Right">>, KeyRight(Ed)) /\ kill' = kill

PressUp == Dispatch(<<"Up">>, KeyUp(Ed)) /\ kill' = kill

PressDown == Dispatch(<<"Down">>, KeyDown(Ed)) /\ kill' = kill

PressPageUp == Dispatch(<<"PageUp">>, KeyPageUp(Ed)) /\ kill' = kill

PressPageDown == Dispatch(<<"PageDown">>, KeyPageDown(Ed)) /\ kill' = kill

PressHome == Dispatch(<<"Home">>, KeyHome(Ed)) /\ kill' = kill

PressEnd == Dispatch(<<"End">>, KeyEnd(Ed)) /\ kill' = kill

PressChar ==
    /\ typed < MaxTyped
    /\ \E c \in Chars : Dispatch(<<"Char", c>>, insert(Ed, c))
    /\ kill' = kill

PressBackspace == Dispatch(<<"Backspace">>, delete(Ed)) /\ kill' = kill

\* _ => (): a key the editor does not bind
PressOther == Dispatch(<<"Other">>, Ed) /\ kill' = kill

\* stdin.next() gave Some(Err(_)): key.unwrap() panics
ReadError == Dispatch(<<"Err">>, Panic(Ed, "unwrap")) /\ kill' = kill

\* stdin.next() gave None: check_resize() reads the terminal's size again
Idle ==
    /\ pc = "read"
    /\ \E i \in DOMAIN Widths, j \in DOMAIN Heights :
          terminal' = check_resize(terminal, Widths[i], Heights[j])
    /\ key' = <<"None">>
    /\ prev' = Ed
    /\ pc' = "loop"
    /\ UNCHANGED <<cursor, offset, buffer, kill, panic, overflow_checks, typed>>

Next ==
    \/ Exit
    \/ Render
    \/ PressCtrlQ
    \/ PressLeft
    \/ PressRight
    \/ PressUp
    \/ PressDown
    \/ PressPageUp
    \/ PressPageDown
    \/ PressHome
    \/ PressEnd
    \/ PressChar
    \/ PressBackspace
    \/ PressOther
    \/ ReadError
    \/ Idle

Spec == Init /\ [][Next]_vars

----------------------------------------------------------------------------
(* The same loop on a file of more than 2^16 lines, from the state Key::Down *)
(* has scrolled it to: the row at the bottom margin, the offset one below    *)
(* 2^16, the frame printed and the next key awaited.  The terminal keeps its *)
(* size, and the keys are followed while the offset stays in that range.     *)

LongLen == U16 + 4

LongFile == [i \in 1 .. LongLen |-> <<>>]

FarOffset == U16 - 1

InitFar ==
    /\ cursor = [x |-> 0, y |-> SatSub(MaxHeight, 3)]
    /\ offset = FarOffset
    /\ buffer = [lines |-> LongFile]
    /\ kill = FALSE
    /\ terminal = [width |-> WideWidth, height |-> MaxHeight,
                   cursor |-> <<0, SatSub(MaxHeight, 3)>>, screen |-> "frame"]
    /\ pc = "read"
    /\ panic = "none"
    /\ overflow_checks \in BOOLEAN
    /\ key = <<"Start">>
    /\ prev = Ed
    /\ typed = 0

NextFar ==
    \/ Render
    \/ PressLeft /\ offset' >= FarOffset
    \/ PressRight /\ offset' >= FarOffset
    \/ PressUp /\ offset' >= FarOffset
    \/ PressDown /\ offset' >= FarOffset
    \/ PressChar /\ offset' >= FarOffset
    \/ PressBackspace /\ offset' >= FarOffset

SpecFar == InitFar /\ [][NextFar]_vars

----------------------------------------------------------------------------
(* Properties *)

Lines == buffer.lines

\* the line the cursor addresses, when there is one
OnLine(e) == e.y + e.offset < Len(e.lines)

LineOf(e) == e.lines[e.y + e.offset + 1]

NavKeys ==
    {<<"Left">>, <<"Right">>, <<"Up">>, <<"Down">>, <<"PageUp">>, <<"PageDown">>,
     <<"Home">>, <<"End">>}

\* C1. Clamp invariant: while the program runs, the column is at most the
\* length of the line at cursor.y + offset when the buffer has lines, and 0
\* when it has none.
C1_ClampInvariant ==
    panic = "none" =>
        IF Lines = <<>> THEN cursor.x = 0
        ELSE OnLine(Ed) => cursor.x <= Len(LineOf(Ed))

C3_ViewportRow ==
    panic = "none" /\ terminal.height >= 1 => cursor.y < terminal.height

\* the panics a key handler can raise (render's are RenderPanics)
DispatchPanics == {"overflow", "index", "slice", "boundary", "unwrap"}

AtOrigin == cursor = [x |-> 0, y |-> 0] /\ offset = 0

\* C4. Empty-buffer stability: with no lines, cursor and offset stay at
\* (0,0) and 0 whatever keys were read, and no navigation key's handler
\* panics.
C4_EmptyBufferStability ==
    Lines = <<>> =>
        /\ AtOrigin
        /\ key \in NavKeys => panic \notin DispatchPanics

\* a navigation key was handled on an empty buffer, on a terminal wide
\* enough for the welcome rows
C4_Witness ==
    /\ Lines = <<>>
    /\ key = <<"End">>
    /\ prev.lines = <<>>
    /\ terminal.width = WideWidth
    /\ terminal.height >= 3
    /\ pc = "loop"
    /\ panic = "none"
    /\ AtOrigin

\* C5. With no lines, Key::Char and Key::Backspace change nothing and do
\* not panic.
C5_EmptyBufferEdits ==
    Lines = <<>> /\ key[1] \in {"Char", "Backspace"} =>
        /\ panic \notin DispatchPanics
        /\ AtOrigin

\* line without the byte at 0-based index i
RemoveAt(line, i) == SubSeq(line, 1, i) \o SubSeq(line, i + 2, Len(line))

SameButLine(a, b, i) ==
    /\ Len(a) = Len(b)
    /\ \A j \in 1 .. Len(a) : j # i => a[j] = b[j]

\* C6. Backspace at column c, 1 <= c <= length of the line, leaves the
\* column at c - 1 and the line without its character at index c - 1, with
\* row, offset and the other lines as they were; at column 0 it changes
\* nothing.
C6_BackspaceRemovesOne ==
    key = <<"Backspace">> /\ OnLine(prev) /\ prev.x <= Len(LineOf(prev)) =>
        /\ panic = "none"
        /\ cursor.y = prev.y
        /\ offset = prev.offset
        /\ SameButLine(Lines, prev.lines, prev.y + prev.offset + 1)
        /\ IF prev.x = 0
           THEN cursor.x = 0 /\ LineOf(Ed) = LineOf(prev)
           ELSE /\ cursor.x = prev.x - 1
                /\ LineOf(Ed) = RemoveAt(LineOf(prev), prev.x - 1)

\* the editor after one Backspace
Backspaced == delete(Ed)

\* C7. Insert then delete, as the spec states it: a character was inserted
\* with the column at c, 1 <= c <= length of the line; one Backspace gives
\* the line back.
C7_InsertDeleteAnyColumn ==
    /\ key[1] = "Char"
    /\ panic = "none"
    /\ OnLine(prev)
    /\ 1 <= prev.x /\ prev.x <= Len(LineOf(prev))
    => /\ Backspaced.panic = "none"
       /\ LineOf(Backspaced) = LineOf(prev)

\* C7, amended: the same with the column at the end of the line and a
\* character of one byte.
C7_InsertDeleteAtEnd ==
    /\ key[1] = "Char"
    /\ panic = "none"
    /\ OnLine(prev)
    /\ 1 <= prev.x /\ prev.x = Len(LineOf(prev))
    /\ Len(Utf8(key[2])) = 1
    => /\ Backspaced.panic = "none"
       /\ LineOf(Backspaced) = LineOf(prev)
       /\ Backspaced.x = prev.x

\* a one-byte character was inserted with the column at the end of a
\* line that is not empty
C7_Witness ==
    /\ key = <<"Char", "c">>
    /\ panic = "none"
    /\ OnLine(prev)
    /\ prev.x = Len(LineOf(prev))
    /\ prev.x >= 1
    /\ LineOf(Ed) = LineOf(prev) \o <<"c">>
    /\ pc = "read"

\* not on the first or the last line, not at either end of the line
Interior(e) ==
    /\ OnLine(e)
    /\ 0 < e.y + e.offset
    /\ e.y + e.offset < Len(e.lines) - 1
    /\ 0 < e.x
    /\ e.x < Len(LineOf(e))

SameTriple(a, b) == a.x = b.x /\ a.y = b.y /\ a.offset = b.offset

\* the editor after one Key::Left
WentLeft == KeyLeft(Ed)

\* C8. Right then Left, as the spec states it: Right was handled from an
\* interior position; Left gives the column, row and offset back.
C8_RightLeftAnyWidth ==
    key = <<"Right">> /\ Interior(prev) =>
        /\ panic = "none"
        /\ WentLeft.panic = "none"
        /\ SameTriple(WentLeft, prev)

\* C8, amended: the same from a column below the terminal width minus one,
\* the limit Key::Right moves up to.
C8_RightLeftBelowWidth ==
    key = <<"Right">> /\ Interior(prev) /\ prev.x < SatSub(prev.width, 1) =>
        /\ panic = "none"
        /\ WentLeft.panic = "none"
        /\ SameTriple(WentLeft, prev)
        /\ cursor.x = prev.x + 1

\* Right was handled from an interior position below the width limit, and
\* the next key can be read
C8_Witness ==
    /\ key = <<"Right">>
    /\ Interior(prev)
    /\ prev.x < SatSub(prev.width, 1)
    /\ cursor.x = prev.x + 1
    /\ pc = "read"

\* C9. Quit: kill is set only by the dispatch of Ctrl-q and never reset;
\* with kill set the only step is the exit, which clears the screen, homes
\* the terminal's cursor and leaves the loop without touching cursor,
\* offset or buffer.
C9_QuitIsTerminal ==
    [][ /\ (kill' /\ ~kill) => (pc = "read" /\ key' = <<"CtrlQ">>)
        /\ kill =>
             /\ kill'
             /\ pc = "loop"
             /\ pc' = "done"
             /\ terminal'.screen = "clear"
             /\ terminal'.cursor = <<0, 0>>
             /\ UNCHANGED <<cursor, offset, buffer>> ]_vars

\* the loop was left after Ctrl-q
C9_Witness ==
    /\ pc = "done"
    /\ kill
    /\ key = <<"CtrlQ">>
    /\ terminal.screen = "clear"
    /\ terminal.cursor = <<0, 0>>

\* C10. A read error is taken as no event: nothing changes and the loop
\* goes on.
C10_ReadErrorAbsorbed ==
    key = <<"Err">> =>
        /\ panic \notin DispatchPanics
        /\ cursor = [x |-> prev.x, y |-> prev.y]
        /\ offset = prev.offset
        /\ Lines = prev.lines

----------------------------------------------------------------------------
(* The frame *)

\* the frame render prints: one row for every row of 0 .. height - 1
Frame(e) == [row \in 0 .. e.height - 1 |-> RenderRow(e, row)]

\* the frame on the screen when the next key is read
Shown == Frame(Ed)

\* C11. In every frame printed on a terminal of height 2 or more, with or
\* without lines in the buffer, row height - 2 is the status line and row
\* height - 1 is the command bar.
C11_StatusAndCommandRows ==
    pc = "read" /\ terminal.height >= 2 =>
        /\ Shown[terminal.height - 2] = "status"
        /\ Shown[terminal.height - 1] = "command"

\* C12. A navigation key changes the cursor row or the offset, never both.
C12_RowOrOffset ==
    key \in NavKeys => cursor.y = prev.y \/ offset = prev.offset

\* navigation keys have scrolled and have moved the row: Up was handled on
\* a row below the first with the buffer scrolled, and moved the row only
C12_Witness ==
    /\ key = <<"Up">>
    /\ prev.y > 0
    /\ prev.offset > 0
    /\ cursor.y = prev.y - 1
    /\ offset = prev.offset
    /\ panic = "none"

\* Key::Down has a line to go to
DownApplies(e) == e.y + 1 + e.offset < Len(e.lines)

\* the column is at the end of a line that is not the last
AtEndOfNonLastLine(e) ==
    /\ OnLine(e)
    /\ e.x = Len(LineOf(e))
    /\ e.y + e.offset + 1 < Len(e.lines)

\* the row is at or below the usable bottom margin
AtMargin(e) == e.y >= SatSub(e.height, 3)

\* the key went one line down: by scrolling with the row kept, or by
\* moving the row with the offset kept
SteppedDown(scroll) ==
    /\ panic = "none"
    /\ IF scroll
       THEN offset = prev.offset + 1 /\ cursor.y = prev.y
       ELSE cursor.y = prev.y + 1 /\ offset = prev.offset

\* C13. Down with a line below, and Right at the end of a line that is not
\* the last, take row + offset one further: by the offset when the row is
\* at or below the bottom margin (height - 3, saturating), by the row
\* otherwise; Right also sets the column to 0.  Both keys make the same
\* choice.
C13_DownRightAgree ==
    /\ key = <<"Down">> /\ DownApplies(prev) => SteppedDown(AtMargin(prev))
    /\ key = <<"Right">> /\ AtEndOfNonLastLine(prev) =>
          SteppedDown(AtMargin(prev)) /\ cursor.x = 0

\* the line above the one the cursor addresses
LineAbove(e) == e.lines[e.y + e.offset]

\* the number of characters of a line, and its number of bytes
CharLen(line) == Cardinality({i \in 1 .. Len(line) : ~IsContinuation(line[i])})

Lengths(line) == {Len(line), CharLen(line)}

\* C14. Left at column 0 with row + offset > 0 takes row + offset one back
\* (by the offset on row 0, by the row otherwise) and puts the column at
\* the length of the line it arrives on (in bytes or in characters),
\* whatever that length and the terminal width; any other Left only takes
\* the column one back, stopping at 0.
C14_LeftWrap ==
    key = <<"Left">> /\ OnLine(prev) =>
        /\ panic = "none"
        /\ IF prev.x = 0 /\ prev.y + prev.offset > 0
           THEN /\ IF prev.y = 0
                   THEN offset = prev.offset - 1 /\ cursor.y = 0
                   ELSE cursor.y = prev.y - 1 /\ offset = prev.offset
                /\ cursor.x \in Lengths(LineAbove(prev))
           ELSE /\ cursor.x = SatSub(prev.x, 1)
                /\ cursor.y = prev.y
                /\ offset = prev.offset

\* C15. With lines in the buffer, Key::Char(c) puts c at the end of the
\* line at row + offset whatever the column, takes the column one further
\* and leaves the row, the offset and the other lines as they were; the
\* number of lines never changes.
C15_InsertAppends ==
    /\ Len(Lines) = Len(prev.lines)
    /\ key[1] = "Char" /\ prev.lines # <<>> =>
          /\ panic = "none"
          /\ OnLine(prev)
          /\ LineOf(Ed) = LineOf(prev) \o Utf8(key[2])
          /\ cursor = [x |-> prev.x + 1, y |-> prev.y]
          /\ offset = prev.offset
          /\ SameButLine(Lines, prev.lines, prev.y + prev.offset + 1)

\* C16. With lines in the buffer, Backspace never fails on a slice out of
\* the line's range, also after Key::Up on row 0 or Key::Down at the
\* margin has scrolled onto a shorter line.
C16_BackspaceInRange ==
    key = <<"Backspace">> /\ prev.lines # <<>> => panic # "slice"

\* C17. On a terminal of height 0 to 3 no subtraction from the height goes
\* below zero: height - 3 in Key::Right and height - 2, height - 1 in
\* render stop at 0, so Right at the end of a line that is not the last and
\* the render of a buffer with lines end without an arithmetic failure.
C17_NoUnderflow ==
    /\ Lines # <<>> /\ terminal.height <= 3 => panic # "render_overflow"
    /\ key = <<"Right">> /\ AtEndOfNonLastLine(prev) /\ prev.height <= 3 =>
          /\ panic # "overflow"
          /\ offset = prev.offset + 1 <=> prev.y = SatSub(prev.height, 3)

\* the rows of the frame that are neither welcome, status nor command rows
OtherRows == {row \in DOMAIN Shown : Shown[row] \notin {"welcome", "status", "command"}}

\* C18. In every frame, a row that is not a welcome, status or command row
\* shows the line at offset + row when the buffer has one and the
\* placeholder when it has none; render reads no line at an index at or
\* past the number of lines, with the buffer scrolled and after a resize
\* too.
C18_TextRows ==
    /\ panic # "render_index"
    /\ pc = "read" =>
          \A row \in OtherRows :
              Shown[row] = IF offset + row < Len(Lines) THEN "text" ELSE "tilde"

\* the visible width of the status row: the status text and its pad
StatusRowWidth(e) == StatusLen(e) + StatusPad(e)

\* C19. On a terminal of any width, narrower than the status text too, and
\* with the cursor anywhere, render ends without failing on a pad, the
\* status row is as wide as the terminal, and the frame has one row for
\* every row of the terminal.
C19_RenderAnyWidth ==
    /\ panic # "render_pad"
    /\ pc = "read" =>
          /\ Cardinality(DOMAIN Shown) = terminal.height
          /\ \A row \in DOMAIN Shown :
                Shown[row] = "status" =>
                    StatusPad(Ed) >= 0 /\ StatusRowWidth(Ed) = terminal.width

\* the index computed for the cursor's line of e is its row plus its offset
Addressed(e) ==
    /\ AsU16(e.offset) = e.offset
    /\ ~LineIndexOverflows(e)
    /\ LineIndex(e) = e.y + e.offset

\* C20. For every row and offset the program reaches, offsets at or past
\* 2^16 too, the index Key::Left, Key::Right, insert, delete and
\* correct_line (here after Key::Up has moved the row) compute for the
\* cursor's line is row + offset: the cast of the offset to 16 bits takes
\* nothing from it and the 16-bit sum does not overflow.
C20_IndexIsRowPlusOffset ==
    prev.lines # <<>> =>
        /\ key[1] \in {"Left", "Right", "Char"} => Addressed(prev)
        /\ key = <<"Backspace">> /\ prev.x # 0 => Addressed(prev)
        /\ key = <<"Up">> /\ prev.y # 0 => Addressed([prev EXCEPT !.y = @ - 1])

====
